---- MODULE Spec2Model ----
(***************************************************************************)
(* Interactive navigation tools of lib/matplotlib/backend_tools.py:        *)
(* ToolHome / ToolBack / ToolForward, ToolZoom and ToolPan, together with   *)
(* the collaborators they drive (the navigation's locks, toggle dispatch   *)
(* and view stack, and the axes), which live outside backend_tools.py.     *)
(***************************************************************************)
EXTENDS Integers, Sequences, FiniteSets, TLC

(***************************************************************************)
(* Bounds and inputs                                                       *)
(***************************************************************************)

\* Number of button-1/3 presses that start a gesture in one behaviour: of the
\* whole controller (Spec) and of the zoom tool alone (SpecZoom).
MaxGestures == 2
MaxZoomGestures == 2

\* The pixel threshold of ToolZoom.release ("ignore singular clicks").
ZoomThreshold == 5

None == "None"
\* _button_pressed = None
NoButton == 0
\* A Python attribute holding a list, or None in place of the list.
NoList == [isNone |-> TRUE, items |-> <<>>]
List(items) == [isNone |-> FALSE, items |-> items]
\* Value of an attribute that __init__ never assigns (ToolZoom._zoom_mode).
Unset == "Unset"

Tools == {"Zoom", "Pan"}
LockNames == {"canvaslock", "presslock", "releaselock", "movelock"}

\* figure.get_axes(): two overlapping axes sharing their x axis (twinx), the
\* second one covering only the upper part of the first.
Axes == {1, 2}
AxesList == <<1, 2>>
Bbox(a) == IF a = 1 THEN [x1 |-> 0, y1 |-> 0, x2 |-> 10, y2 |-> 10]
                    ELSE [x1 |-> 0, y1 |-> 2, x2 |-> 10, y2 |-> 10]
SharedX(a, b) == TRUE
SharedY(a, b) == a = b

\* Event inputs: pixel coordinates, mouse buttons, keys.  Pixels lists points
\* strictly inside the axes, on its right edge (10) and outside (15); the
\* coarse set drives the controller as a whole.
Pixels == [x : {2, 8, 10, 15}, y : {1, 9}]
CoarsePixels == {[x |-> 2, y |-> 1], [x |-> 8, y |-> 9], [x |-> 15, y |-> 9]}
Buttons == {1, 2, 3}
Keys == {"x", "y"}
PressKeys == {None, "x"}

(***************************************************************************)
(* Float arithmetic, as exact fractions <<n, d>> with d >= 0; d = 0 stands  *)
(* for the non-finite floats: <<1,0>> = inf, <<-1,0>> = -inf, <<0,0>> = nan *)
(***************************************************************************)

Abs(n) == IF n < 0 THEN -n ELSE n
Sign(n) == IF n < 0 THEN -1 ELSE IF n > 0 THEN 1 ELSE 0

RECURSIVE GCD(_, _)
GCD(a, b) == IF b = 0 THEN a ELSE GCD(b, a % b)

Frac(n, d) ==
    IF d = 0 THEN <<Sign(n), 0>>
    ELSE LET g == GCD(Abs(n), Abs(d))
             s == Sign(d)
         IN  <<(s * n) \div g, (s * d) \div g>>

R(n) == <<n, 1>>
NaN == <<0, 0>>
IsNaN(a) == a = NaN
IsFinite(a) == a[2] # 0

RAdd(a, b) ==
    IF IsNaN(a) \/ IsNaN(b) THEN NaN
    ELSE IF ~IsFinite(a) /\ ~IsFinite(b) THEN (IF a = b THEN a ELSE NaN)
    ELSE IF ~IsFinite(a) THEN a
    ELSE IF ~IsFinite(b) THEN b
    ELSE Frac(a[1] * b[2] + b[1] * a[2], a[2] * b[2])

RNeg(a) == <<-a[1], a[2]>>
RSub(a, b) == RAdd(a, RNeg(b))

RMul(a, b) ==
    IF IsNaN(a) \/ IsNaN(b) THEN NaN
    ELSE IF ~IsFinite(a) \/ ~IsFinite(b) THEN <<Sign(a[1]) * Sign(b[1]), 0>>
    ELSE Frac(a[1] * b[1], a[2] * b[2])

RDiv(a, b) ==
    IF IsNaN(a) \/ IsNaN(b) THEN NaN
    ELSE IF ~IsFinite(b) THEN (IF IsFinite(a) THEN R(0) ELSE NaN)
    ELSE IF b[1] = 0 THEN <<Sign(a[1]), 0>>
    ELSE IF ~IsFinite(a) THEN <<Sign(a[1]) * Sign(b[1]), 0>>
    ELSE Frac(a[1] * b[2], a[2] * b[1])

RLt(a, b) ==
    IF IsNaN(a) \/ IsNaN(b) THEN FALSE
    ELSE IF ~IsFinite(a) /\ ~IsFinite(b) THEN a[1] < b[1]
    ELSE a[1] * b[2] < b[1] * a[2]

RGt(a, b) == RLt(b, a)
RLe(a, b) == RLt(a, b) \/ (a = b /\ ~IsNaN(a))


(***************************************************************************)
(* State                                                                   *)
(***************************************************************************)

VARIABLES
    locks,      \* navigation.canvaslock/presslock/releaselock/movelock: owner
    toggled,    \* navigation: the active toggle tool, or None
    views,      \* navigation.views: [elements, pos], pos = -1 when empty
    positions,  \* navigation.positions: the same stack for the axes positions
    callbacks,  \* canvas: the connected transient listeners (by event name)
    xlim,       \* a.get_xlim() of every axes
    ylim,       \* a.get_ylim() of every axes
    pan_start,  \* the pan session of every axes (start_pan .. end_pan)
    zoom,       \* ToolZoom: _ids_zoom, _button_pressed, _xypress, _zoom_mode
    pan,        \* ToolPan: _button_pressed, _xypress
    gestures,   \* number of gestures that may still be started (the bound)
    last        \* the event handled last: handler, path taken, error raised

vars == <<locks, toggled, views, positions, callbacks, xlim, ylim, pan_start,
          zoom, pan, gestures, last>>

(***************************************************************************)
(* ExclusiveLock (navigation's lock objects)                               *)
(***************************************************************************)

\* lock.available(o): unheld, or held by o itself.
LockAvailable(l, name, o) == l[name] = None \/ l[name] = o

\* lock(o): grants ownership; the caller checks LockAvailable first, and a
\* lock held by another owner raises LockContention instead.
LockAcquire(l, name, o) == [l EXCEPT ![name] = o]

\* lock.release(o): clears ownership only if o is the holder, else a no-op.
LockRelease(l, name, o) == IF l[name] = o THEN [l EXCEPT ![name] = None] ELSE l

\* Acquire the locks of the sequence names in order, for owner o; the first
\* contended lock raises and the remaining statements are not executed.
RECURSIVE AcquireAll(_, _, _)
AcquireAll(l, names, o) ==
    IF names = <<>> THEN [locks |-> l, err |-> None]
    ELSE IF ~LockAvailable(l, Head(names), o)
         THEN [locks |-> l, err |-> "LockContention"]
         ELSE AcquireAll(LockAcquire(l, Head(names), o), Tail(names), o)

RECURSIVE ReleaseAll(_, _, _)
ReleaseAll(l, names, o) ==
    IF names = <<>> THEN l
    ELSE ReleaseAll(LockRelease(l, Head(names), o), Tail(names), o)

(***************************************************************************)
(* ViewStack (navigation.views, navigation.positions)                      *)
(***************************************************************************)

EmptyStack == [elements |-> <<>>, pos |-> -1]

StackEmpty(s) == Len(s.elements) = 0

\* current(): the group at the cursor (elements is 1-based, pos 0-based).
StackCurrent(s) == s.elements[s.pos + 1]

StackPushNoTruncate(s, o) ==
    [elements |-> Append(s.elements, o), pos |-> s.pos + 1]

\* push: drop the entries after the cursor, append, advance the cursor.
StackPush(s, o) ==
    [elements |-> Append(SubSeq(s.elements, 1, s.pos + 1), o),
     pos |-> s.pos + 1]

\* home: cursor to 0, no-op when empty.
StackHome(s) == IF StackEmpty(s) THEN s ELSE [s EXCEPT !.pos = 0]

\* back: decrement, clamped at 0.
StackBack(s) == IF s.pos > 0 THEN [s EXCEPT !.pos = s.pos - 1] ELSE s

\* forward: increment, clamped at the last entry.
StackForward(s) ==
    IF s.pos < Len(s.elements) - 1 THEN [s EXCEPT !.pos = s.pos + 1] ELSE s

(***************************************************************************)
(* Axes                                                                    *)
(***************************************************************************)

\* a.in_axes(event): the pixel lies in the bounding box, edges included.
InAxes(a, x, y) ==
    /\ Bbox(a).x1 <= x /\ x <= Bbox(a).x2
    /\ Bbox(a).y1 <= y /\ y <= Bbox(a).y2

GetNavigate(a) == TRUE
CanZoom(a) == TRUE
CanPan(a) == TRUE
XScale(a) == "linear"
YScale(a) == "linear"

\* a.transData.inverted().transform_point on a linear axis whose current
\* range lim = <<Min, Max>> is drawn over the pixels p1..p2.
PixToData(px, p1, p2, lim) ==
    RAdd(lim[1], RDiv(RMul(R(px - p1), RSub(lim[2], lim[1])), R(p2 - p1)))

\* a.set_xlim(v): sets the range of a and of the axes sharing its x axis.
SetXlim(xl, a, v) == [b \in Axes |-> IF b = a \/ SharedX(a, b) THEN v ELSE xl[b]]
SetYlim(yl, a, v) == [b \in Axes |-> IF b = a \/ SharedY(a, b) THEN v ELSE yl[b]]

(***************************************************************************)
(* Navigation (controller)                                                 *)
(***************************************************************************)

\* The snapshot group push_current() takes: the ranges of all axes.
CurrentView(xl, yl) == [xlim |-> xl, ylim |-> yl]

\* navigation.push_current() on the views stack.
PushCurrent(s, xl, yl) == StackPush(s, CurrentView(xl, yl))
\* ... and on the positions stack (the axes positions never change here).
PushPosition(s) == StackPush(s, "position")

\* navigation.update_view(): apply the current snapshot group, if any.
UpdateViewX(s, xl) == IF StackEmpty(s) THEN xl ELSE StackCurrent(s).xlim
UpdateViewY(s, yl) == IF StackEmpty(s) THEN yl ELSE StackCurrent(s).ylim

\* What the last event did: the handler that ran (op of tool), the path it
\* took through its code and the exception it raised, if any; pushed is the
\* number of redo entries its push_current() discarded (-1: it pushed nothing);
\* pos0 is the cursor a Back started from, and back0 the cursor the Back
\* started from that a Forward directly follows (-2: not such an event).
Event(op, tool, path, err) ==
    [op |-> op, tool |-> tool, path |-> path, err |-> err, pushed |-> -1,
     pos0 |-> -2, back0 |-> -2]

\* The event record of a handler that called push_current().
WithPush(e) ==
    [e EXCEPT !.pushed = Len(views.elements) - (views.pos + 1)]

Range(f) == {f[i] : i \in DOMAIN f}

(***************************************************************************)
(* ToolHome, ToolBack, ToolForward                                         *)
(***************************************************************************)

HistoryStep(op, v, p) ==
    /\ views' = v
    /\ positions' = p
    /\ xlim' = UpdateViewX(v, xlim)
    /\ ylim' = UpdateViewY(v, ylim)
    /\ last' = [Event(op, None, "activate", None) EXCEPT
                    !.pos0 = IF op = "Back" THEN views.pos ELSE -2,
                    !.back0 = IF op = "Forward" /\ last.op = "Back"
                              THEN last.pos0 ELSE -2]
    /\ UNCHANGED <<locks, toggled, callbacks, pan_start, zoom, pan, gestures>>

ToolHomeClears == HistoryStep("Home", EmptyStack, EmptyStack)

ToolHome == HistoryStep("Home", StackHome(views), StackHome(positions))

ToolBackTwice ==
    HistoryStep("Back", StackBack(StackBack(views)),
                StackBack(StackBack(positions)))

ToolBackNoUpdate ==
    /\ views' = StackBack(views)
    /\ positions' = StackBack(positions)
    /\ last' = [Event("Back", None, "activate", None) EXCEPT
                    !.pos0 = views.pos]
    /\ UNCHANGED <<locks, toggled, callbacks, xlim, ylim, pan_start, zoom, pan,
                   gestures>>

ToolBack == HistoryStep("Back", StackBack(views), StackBack(positions))

ToolForwardUnclamped ==
    HistoryStep("Forward", [views EXCEPT !.pos = views.pos + 1],
                [positions EXCEPT !.pos = positions.pos + 1])

ToolForward ==
    HistoryStep("Forward", StackForward(views), StackForward(positions))

(***************************************************************************)
(* Toggle tools: activate / deactivate, and the navigation's toggle        *)
(***************************************************************************)

ActivationLocks == <<"canvaslock", "presslock", "releaselock">>

ZoomActivate(l) == AcquireAll(l, ActivationLocks, "Zoom")

ZoomDeactivateKeepsPress(l) ==
    ReleaseAll(l, <<"canvaslock", "releaselock">>, "Zoom")

ZoomDeactivate(l) == ReleaseAll(l, ActivationLocks, "Zoom")

PanActivate(l) == AcquireAll(l, ActivationLocks, "Pan")

PanDeactivate(l) == ReleaseAll(l, ActivationLocks, "Pan")

Activate(l, t) == IF t = "Zoom" THEN ZoomActivate(l) ELSE PanActivate(l)
Deactivate(l, t) == IF t = "Zoom" THEN ZoomDeactivate(l) ELSE PanDeactivate(l)

\* The navigation toggles tool t: a second trigger of the active tool
\* deactivates it; otherwise the active tool (if any) is deactivated first and
\* t is activated.  An activation that raises LockContention is skipped.
Trigger(t) ==
    /\ IF toggled = t
       THEN /\ locks' = Deactivate(locks, t)
            /\ toggled' = None
            /\ last' = Event("Trigger", t, <<<<t, "deactivate">>>>, None)
       ELSE LET l1 == IF toggled = None THEN locks ELSE Deactivate(locks, toggled)
                c1 == IF toggled = None THEN <<>>
                      ELSE <<<<toggled, "deactivate">>>>
                act == Activate(l1, t)
            IN  /\ locks' = act.locks
                /\ toggled' = IF act.err = None THEN t ELSE None
                /\ last' = Event("Trigger", t, Append(c1, <<t, "activate">>),
                                 act.err)
    /\ UNCHANGED <<views, positions, callbacks, xlim, ylim, pan_start, zoom,
                   pan, gestures>>

TriggerZoom == Trigger("Zoom")
TriggerPan == Trigger("Pan")

(***************************************************************************)
(* ToolZoom                                                                *)
(***************************************************************************)

ZoomInit == [ids_zoom |-> <<>>, button_pressed |-> NoButton, xypress |-> NoList,
             zoom_mode |-> Unset]

ZoomIds == <<"key_press_event", "key_release_event">>

\* The _xypress list of ToolZoom.press: (x, y, a, i, a.viewLim.frozen(),
\* a.transData.frozen()); the index i is the axes itself and the frozen
\* transform is determined by lim and the bounding box (neither is read again).
ZoomRecords(ev) ==
    LET as == SelectSeq(AxesList, LAMBDA a : InAxes(a, ev.x, ev.y)
                                          /\ GetNavigate(a) /\ CanZoom(a))
    IN  [i \in 1..Len(as) |->
            [x |-> ev.x, y |-> ev.y, a |-> as[i],
             lim |-> <<xlim[as[i]], ylim[as[i]]>>]]

ZoomCancelKeepsRecord ==
    /\ locks' = LockRelease(locks, "movelock", "Zoom")
    /\ callbacks' = callbacks \ Range(zoom.ids_zoom)
    /\ zoom' = [zoom EXCEPT !.button_pressed = NoButton, !.ids_zoom = <<>>]
    /\ last' = Event("press", "Zoom", "cancel", None)
    /\ UNCHANGED <<views, positions, gestures>>

\* "If we're already in the middle of a zoom, pressing another button works
\* to cancel": the first branch of ToolZoom.press.
ZoomCancel ==
    /\ locks' = LockRelease(locks, "movelock", "Zoom")
    /\ callbacks' = callbacks \ Range(zoom.ids_zoom)
    /\ zoom' = [zoom EXCEPT !.xypress = NoList, !.button_pressed = NoButton,
                            !.ids_zoom = <<>>]
    /\ last' = Event("press", "Zoom", "cancel", None)
    /\ UNCHANGED <<views, positions, gestures>>

ZoomPress(ev) ==
    /\ locks["presslock"] = "Zoom"
    /\ IF zoom.ids_zoom # <<>>
       THEN ZoomCancel
       ELSE IF ev.button \notin {1, 3}
       THEN /\ zoom' = [zoom EXCEPT !.button_pressed = NoButton]
            /\ last' = Event("press", "Zoom", "ignored", None)
            /\ UNCHANGED <<locks, callbacks, views, positions, gestures>>
       ELSE /\ gestures > 0
            /\ gestures' = gestures - 1
            /\ views' = IF StackEmpty(views)
                        THEN PushCurrent(views, xlim, ylim) ELSE views
            /\ positions' = IF StackEmpty(views)
                            THEN PushPosition(positions) ELSE positions
            /\ IF LockAvailable(locks, "movelock", "Zoom")
               THEN /\ locks' = LockAcquire(locks, "movelock", "Zoom")
                    /\ callbacks' = callbacks \cup Range(ZoomIds)
                    /\ zoom' = [ids_zoom |-> ZoomIds,
                                button_pressed |-> ev.button,
                                xypress |-> List(ZoomRecords(ev)),
                                zoom_mode |-> ev.key]
                    /\ last' = IF StackEmpty(views)
                               THEN WithPush(Event("press", "Zoom", "armed",
                                                   None))
                               ELSE Event("press", "Zoom", "armed", None)
               ELSE \* navigation.movelock(self) raises: the rest is skipped
                    /\ zoom' = [zoom EXCEPT !.button_pressed = ev.button,
                                            !.xypress = List(ZoomRecords(ev))]
                    /\ last' = IF StackEmpty(views)
                               THEN WithPush(Event("press", "Zoom", "raised",
                                                   "LockContention"))
                               ELSE Event("press", "Zoom", "raised",
                                          "LockContention")
                    /\ UNCHANGED <<locks, callbacks>>
    /\ UNCHANGED <<toggled, xlim, ylim, pan_start, pan>>

\* _switch_on_zoom_mode, connected to key_press_event while armed.
ZoomSwitchOn(key) ==
    /\ "key_press_event" \in callbacks
    /\ zoom' = [zoom EXCEPT !.zoom_mode = key]
    /\ last' = Event("key_press", "Zoom", "mode", None)
    /\ UNCHANGED <<locks, toggled, views, positions, callbacks, xlim, ylim,
                   pan_start, pan, gestures>>

\* _switch_off_zoom_mode, connected to key_release_event while armed.
ZoomSwitchOff(key) ==
    /\ "key_release_event" \in callbacks
    /\ zoom' = [zoom EXCEPT !.zoom_mode = None]
    /\ last' = Event("key_release", "Zoom", "mode", None)
    /\ UNCHANGED <<locks, toggled, views, positions, callbacks, xlim, ylim,
                   pan_start, pan, gestures>>

\* mouse_move only draws the rubberband rectangle.
ZoomMouseMove(ev) ==
    /\ locks["movelock"] = "Zoom"
    /\ last' = Event("move", "Zoom", "rubberband", None)
    /\ UNCHANGED <<locks, toggled, views, positions, callbacks, xlim, ylim,
                   pan_start, zoom, pan, gestures>>

SingularClickNever(dx, dy) == FALSE

\* "ignore singular clicks - 5 pixels is a threshold"
SingularClick(dx, dy) == Abs(dx) < ZoomThreshold \/ Abs(dy) < ZoomThreshold

\* The interval x0, x1 (y0, y1) spanned by the press and release points,
\* ordered like Min, Max and clamped to them.
ZoomInterval(Min, Max, v, lastv) ==
    IF RLt(Min, Max)
    THEN LET p == IF RLt(v, lastv) THEN <<v, lastv>> ELSE <<lastv, v>>
         IN  <<IF RLt(p[1], Min) THEN Min ELSE p[1],
               IF RGt(p[2], Max) THEN Max ELSE p[2]>>
    ELSE LET p == IF RGt(v, lastv) THEN <<v, lastv>> ELSE <<lastv, v>>
         IN  <<IF RGt(p[1], Min) THEN Min ELSE p[1],
               IF RLt(p[2], Max) THEN Max ELSE p[2]>>

ZoomOutRangeNoOffset(Min, Max, v0, v1) ==
    LET alpha == RDiv(RSub(Max, Min), RSub(v1, v0))
    IN  <<RMul(alpha, RSub(Min, v0)), RMul(alpha, RSub(Max, v0))>>

\* Button 3 on a linear axis: alpha = (Max - Min) / (x1 - x0), and the range
\* alpha * (Min - x0) + Min, alpha * (Max - x0) + Min.
ZoomOutRange(Min, Max, v0, v1) ==
    LET alpha == RDiv(RSub(Max, Min), RSub(v1, v0))
    IN  <<RAdd(RMul(alpha, RSub(Min, v0)), Min),
          RAdd(RMul(alpha, RSub(Max, v0)), Min)>>

ZoomSetBoth(xl, yl, a, mode, xr, yr) ==
    [xlim |-> SetXlim(xl, a, xr), ylim |-> SetYlim(yl, a, yr)]

\* set_xlim / set_ylim under the zoom mode: "x" sets only the x range, "y"
\* only the y range, anything else both.
ZoomSet(xl, yl, a, mode, xr, yr) ==
    IF mode = "x" THEN [xlim |-> SetXlim(xl, a, xr), ylim |-> yl]
    ELSE IF mode = "y" THEN [xlim |-> xl, ylim |-> SetYlim(yl, a, yr)]
    ELSE [xlim |-> SetXlim(xl, a, xr), ylim |-> SetYlim(yl, a, yr)]

\* The loop of ToolZoom.release over the recorded axes, from record i on, with
\* the ranges xl, yl set so far and last_a the axes already processed.
RECURSIVE ZoomReleaseLoop(_, _, _, _, _, _, _, _)
ZoomReleaseLoop(recs, i, ev, button, mode, xl, yl, last_a) ==
    IF i > Len(recs) THEN [xlim |-> xl, ylim |-> yl, exit |-> "done"]
    ELSE
    LET cur == recs[i]
        a == cur.a
        bb == Bbox(a)
    IN  IF SingularClick(ev.x - cur.x, ev.y - cur.y)
        THEN [xlim |-> xl, ylim |-> yl, exit |-> "singular"]
        ELSE
        LET lastx == PixToData(cur.x, bb.x1, bb.x2, xl[a])
            lasty == PixToData(cur.y, bb.y1, bb.y2, yl[a])
            x == PixToData(ev.x, bb.x1, bb.x2, xl[a])
            y == PixToData(ev.y, bb.y1, bb.y2, yl[a])
            Xmin == xl[a][1]
            Xmax == xl[a][2]
            Ymin == yl[a][1]
            Ymax == yl[a][2]
            twinx == \E la \in last_a : SharedX(a, la)
            twiny == \E la \in last_a : SharedY(a, la)
            xr == IF twinx THEN <<Xmin, Xmax>>
                  ELSE ZoomInterval(Xmin, Xmax, x, lastx)
            yr == IF twiny THEN <<Ymin, Ymax>>
                  ELSE ZoomInterval(Ymin, Ymax, y, lasty)
            new == IF button = 1 THEN ZoomSet(xl, yl, a, mode, xr, yr)
                   ELSE IF button = 3
                   THEN ZoomSet(xl, yl, a, mode,
                                ZoomOutRange(Xmin, Xmax, xr[1], xr[2]),
                                ZoomOutRange(Ymin, Ymax, yr[1], yr[2]))
                   ELSE [xlim |-> xl, ylim |-> yl]
        IN  IF button \in {1, 3} /\ mode = Unset
            THEN [xlim |-> xl, ylim |-> yl, exit |-> "AttributeError"]
            ELSE ZoomReleaseLoop(recs, i + 1, ev, button, mode, new.xlim,
                                 new.ylim, last_a \cup {a})

ZoomRelease(ev) ==
    /\ locks["releaselock"] = "Zoom"
    /\ locks' = LockRelease(locks, "movelock", "Zoom")
    /\ callbacks' = callbacks \ Range(zoom.ids_zoom)
    /\ IF zoom.xypress.items = <<>>
       THEN /\ zoom' = [zoom EXCEPT !.ids_zoom = <<>>]
            /\ last' = Event("release", "Zoom", "empty", None)
            /\ UNCHANGED <<views, positions, xlim, ylim>>
       ELSE LET res == ZoomReleaseLoop(zoom.xypress.items, 1, ev,
                                       zoom.button_pressed, zoom.zoom_mode,
                                       xlim, ylim, {})
            IN  /\ xlim' = res.xlim
                /\ ylim' = res.ylim
                /\ IF res.exit = "done"
                   THEN /\ zoom' = [ids_zoom |-> <<>>, button_pressed |-> NoButton,
                                    xypress |-> NoList, zoom_mode |-> None]
                        /\ views' = PushCurrent(views, res.xlim, res.ylim)
                        /\ positions' = PushPosition(positions)
                        /\ last' = WithPush(Event("release", "Zoom", "done",
                                                  None))
                   ELSE IF res.exit = "singular"
                   THEN /\ zoom' = [zoom EXCEPT !.ids_zoom = <<>>,
                                                !.xypress = NoList]
                        /\ last' = Event("release", "Zoom", "singular", None)
                        /\ UNCHANGED <<views, positions>>
                   ELSE /\ zoom' = [zoom EXCEPT !.ids_zoom = <<>>]
                        /\ last' = Event("release", "Zoom", "raised", res.exit)
                        /\ UNCHANGED <<views, positions>>
    /\ UNCHANGED <<toggled, pan_start, pan, gestures>>

(***************************************************************************)
(* ToolPan                                                                 *)
(***************************************************************************)

PanInit == [button_pressed |-> NoButton, xypress |-> NoList]

\* An axes without a pan session (no _pan_start attribute).
NoPan == [active |-> FALSE]

\* a.start_pan(x, y, button): the axes records where the pan started.
StartPan(a, x, y) ==
    [active |-> TRUE, x |-> x, y |-> y, xlim |-> xlim[a], ylim |-> ylim[a]]

\* The zoom factor a.drag_pan applies for button 3 after a drag of d pixels.
PanZoomFactor(d) == IF d > 0 THEN Frac(1, 2) ELSE IF d < 0 THEN R(2) ELSE R(1)

\* One axis of a.drag_pan(button, key, x, y): button 1 translates the range
\* the pan started with by the dragged distance d (in pixels, converted with
\* the pixels p1..p2 of the axis); button 3 rescales it.
DragPanAxis(button, lim, start, d, p1, p2) ==
    IF button = 1
    THEN LET dd == RDiv(RMul(R(d), RSub(start[2], start[1])), R(p2 - p1))
         IN  <<RSub(start[1], dd), RSub(start[2], dd)>>
    ELSE IF button = 3
    THEN <<start[1],
           RAdd(start[1], RMul(RSub(start[2], start[1]), PanZoomFactor(d)))>>
    ELSE lim

\* The loop of ToolPan.press over figure.get_axes(), from position i on.
RECURSIVE PanPressLoop(_, _, _, _, _, _)
PanPressLoop(as, i, ev, ps, recs, l) ==
    IF i > Len(as)
    THEN [pan_start |-> ps, xypress |-> recs, locks |-> l, err |-> None]
    ELSE LET a == as[i]
             ps1 == [ps EXCEPT ![a] = StartPan(a, ev.x, ev.y)]
             recs1 == Append(recs, a)
         IN  IF LockAvailable(l, "movelock", "Pan")
             THEN PanPressLoop(as, i + 1, ev, ps1, recs1,
                               LockAcquire(l, "movelock", "Pan"))
             ELSE [pan_start |-> ps1, xypress |-> recs1, locks |-> l,
                   err |-> "LockContention"]

PanPress(ev) ==
    /\ locks["presslock"] = "Pan"
    /\ IF ev.button \notin {1, 3}
       THEN /\ pan' = [pan EXCEPT !.button_pressed = NoButton]
            /\ last' = Event("press", "Pan", "ignored", None)
            /\ UNCHANGED <<locks, views, positions, pan_start, gestures>>
       ELSE /\ gestures > 0
            /\ gestures' = gestures - 1
            /\ views' = IF StackEmpty(views)
                        THEN PushCurrent(views, xlim, ylim) ELSE views
            /\ positions' = IF StackEmpty(views)
                            THEN PushPosition(positions) ELSE positions
            /\ LET as == SelectSeq(AxesList, LAMBDA a : InAxes(a, ev.x, ev.y)
                                         /\ GetNavigate(a) /\ CanPan(a))
                   res == PanPressLoop(as, 1, ev, pan_start, <<>>, locks)
               IN  /\ pan_start' = res.pan_start
                   /\ locks' = res.locks
                   /\ pan' = [button_pressed |-> ev.button,
                              xypress |-> List(res.xypress)]
                   /\ last' = LET e == Event("press", "Pan",
                                               IF res.err = None THEN "drag"
                                               ELSE "raised", res.err)
                              IN  IF StackEmpty(views) THEN WithPush(e) ELSE e
    /\ UNCHANGED <<toggled, callbacks, xlim, ylim, zoom>>

\* The loop of ToolPan.mouse_move over the recorded axes.
RECURSIVE PanMoveLoop(_, _, _, _, _, _)
PanMoveLoop(recs, i, ev, button, xl, yl) ==
    IF i > Len(recs) THEN [xlim |-> xl, ylim |-> yl, err |-> None]
    ELSE LET a == recs[i]
             st == pan_start[a]
             bb == Bbox(a)
         IN  IF ~st.active
             THEN [xlim |-> xl, ylim |-> yl, err |-> "AttributeError"]
             ELSE IF ev.x = st.x /\ ev.y = st.y
             THEN PanMoveLoop(recs, i + 1, ev, button, xl, yl)
             ELSE PanMoveLoop(recs, i + 1, ev, button,
                     SetXlim(xl, a, DragPanAxis(button, xl[a], st.xlim,
                                                ev.x - st.x, bb.x1, bb.x2)),
                     SetYlim(yl, a, DragPanAxis(button, yl[a], st.ylim,
                                                ev.y - st.y, bb.y1, bb.y2)))

PanMouseMove(ev) ==
    /\ locks["movelock"] = "Pan"
    /\ IF pan.xypress.isNone
       THEN /\ last' = Event("move", "Pan", "raised", "TypeError")
            /\ UNCHANGED <<xlim, ylim>>
       ELSE LET res == PanMoveLoop(pan.xypress.items, 1, ev,
                                   pan.button_pressed,
                                   xlim, ylim)
            IN  /\ xlim' = res.xlim
                /\ ylim' = res.ylim
                /\ last' = Event("move", "Pan",
                                 IF res.err = None THEN "drag" ELSE "raised",
                                 res.err)
    /\ UNCHANGED <<locks, toggled, views, positions, callbacks, pan_start,
                   zoom, pan, gestures>>

PanReleaseNoButtonCheck(ev) ==
    /\ locks["releaselock"] = "Pan"
    /\ locks' = LockRelease(locks, "movelock", "Pan")
    /\ pan_start' = [a \in Axes |->
                        IF a \in Range(pan.xypress.items) THEN NoPan
                        ELSE pan_start[a]]
    /\ IF pan.xypress.items = <<>>
       THEN /\ last' = Event("release", "Pan", "empty", None)
            /\ UNCHANGED <<views, positions, pan>>
       ELSE /\ last' = WithPush(Event("release", "Pan", "done", None))
            /\ pan' = [button_pressed |-> NoButton, xypress |-> List(<<>>)]
            /\ views' = PushCurrent(views, xlim, ylim)
            /\ positions' = PushPosition(positions)
    /\ UNCHANGED <<toggled, callbacks, xlim, ylim, zoom, gestures>>

PanRelease(ev) ==
    /\ locks["releaselock"] = "Pan"
    /\ IF pan.button_pressed = NoButton
       THEN /\ last' = Event("release", "Pan", "ignored", None)
            /\ UNCHANGED <<locks, views, positions, pan_start, pan>>
       ELSE /\ locks' = LockRelease(locks, "movelock", "Pan")
            /\ pan_start' = [a \in Axes |->
                                IF a \in Range(pan.xypress.items) THEN NoPan
                                ELSE pan_start[a]]
            /\ IF pan.xypress.items = <<>>
               THEN /\ last' = Event("release", "Pan", "empty", None)
                    /\ UNCHANGED <<views, positions, pan>>
               ELSE /\ last' = WithPush(Event("release", "Pan", "done", None))
                    /\ pan' = [button_pressed |-> NoButton, xypress |-> List(<<>>)]
                    /\ views' = PushCurrent(views, xlim, ylim)
                    /\ positions' = PushPosition(positions)
    /\ UNCHANGED <<toggled, callbacks, xlim, ylim, zoom, gestures>>

(***************************************************************************)
(* Events and specification                                                *)
(***************************************************************************)

PressEvents(P, K) ==
    {[button |-> b, key |-> k, x |-> p.x, y |-> p.y] :
        b \in Buttons, k \in K, p \in P}

\* The ranges the axes start with: each axis once ascending, once inverted.
InitialViews == {<<<<R(0), R(10)>>, <<R(10), R(0)>>>>,
                 <<<<R(10), R(0)>>, <<R(0), R(10)>>>>}

\* The state after construction, with n gestures to go and the axes showing
\* one of the views V.
InitWith(n, V) ==
    /\ locks = [l \in LockNames |-> None]
    /\ toggled = None
    /\ views = EmptyStack
    /\ positions = EmptyStack
    /\ callbacks = {}
    /\ \E v \in V :
           /\ xlim = [a \in Axes |-> v[1]]
           /\ ylim = [a \in Axes |-> v[2]]
    /\ pan_start = [a \in Axes |-> NoPan]
    /\ zoom = ZoomInit
    /\ pan = PanInit
    /\ gestures = n
    /\ last = Event("init", None, None, None)

MousePressZoom(P, K) == \E ev \in PressEvents(P, K) : ZoomPress(ev)
MouseMoveZoom(P) == \E ev \in P : ZoomMouseMove(ev)
MouseReleaseZoom(P) == \E ev \in P : ZoomRelease(ev)
KeyPressZoom(K) == \E key \in K : ZoomSwitchOn(key)
KeyReleaseZoom(K) == \E key \in K : ZoomSwitchOff(key)
MousePressPan(P, K) == \E ev \in PressEvents(P, K) : PanPress(ev)
MouseMovePan(P) == \E ev \in P : PanMouseMove(ev)
MouseReleasePan(P) == \E ev \in P : PanRelease(ev)

\* The whole controller.
Init == InitWith(MaxGestures, {<<<<R(0), R(10)>>, <<R(10), R(0)>>>>})

Next ==
    \/ ToolHome
    \/ ToolBack
    \/ ToolForward
    \/ TriggerZoom
    \/ TriggerPan
    \/ MousePressZoom(CoarsePixels, {None})
    \/ MouseMoveZoom(CoarsePixels)
    \/ MouseReleaseZoom(CoarsePixels)
    \/ KeyPressZoom({"x"})
    \/ KeyReleaseZoom({"x"})
    \/ MousePressPan(CoarsePixels, {None})
    \/ MouseMovePan(CoarsePixels)
    \/ MouseReleasePan(CoarsePixels)

Spec == Init /\ [][Next]_vars

\* The zoom tool alone, with all pixel positions.
InitZoom == InitWith(MaxZoomGestures, InitialViews)

NextZoom ==
    \/ TriggerZoom
    \/ MousePressZoom(Pixels, PressKeys)
    \/ MouseMoveZoom(Pixels)
    \/ MouseReleaseZoom(Pixels)
    \/ KeyPressZoom(Keys)
    \/ KeyReleaseZoom(Keys)

SpecZoom == InitZoom /\ [][NextZoom]_vars

\* Another owner of the navigation's locks (a widget or tool other than Zoom
\* and Pan) acquires the free lock n, or releases the lock n it holds.
WidgetAcquire(n) ==
    /\ locks[n] = None
    /\ locks' = LockAcquire(locks, n, "Widget")
    /\ last' = Event("acquire", "Widget", n, None)
    /\ UNCHANGED <<toggled, views, positions, callbacks, xlim, ylim, pan_start,
                   zoom, pan, gestures>>

WidgetRelease(n) ==
    /\ locks[n] = "Widget"
    /\ locks' = LockRelease(locks, n, "Widget")
    /\ last' = Event("release", "Widget", n, None)
    /\ UNCHANGED <<toggled, views, positions, callbacks, xlim, ylim, pan_start,
                   zoom, pan, gestures>>

WidgetLocks == \E n \in Range(ActivationLocks) : WidgetAcquire(n)
WidgetUnlocks == \E n \in Range(ActivationLocks) : WidgetRelease(n)

\* The toggle tools next to another owner of the locks.
NextLocks ==
    \/ TriggerZoom
    \/ TriggerPan
    \/ WidgetLocks
    \/ WidgetUnlocks
    \/ MousePressZoom(CoarsePixels, {None})
    \/ MouseReleaseZoom(CoarsePixels)

SpecLocks == Init /\ [][NextLocks]_vars

(***************************************************************************)
(* Claims                                                                  *)
(***************************************************************************)

\* C1 (as stated): whenever a Forward directly follows a Back, the cursor is
\* again where it was immediately before the Back, in every state.
C1_BackForwardRestoresAlways ==
    (last.op = "Forward" /\ last.back0 # -2) => views.pos = last.back0

\* C1 (amended): a Forward that directly follows a Back restores the cursor
\* the Back started from whenever that cursor was above 0 or had no forward
\* history (the last entry, or an empty stack).
C1_BackForwardRestores ==
    (/\ last.op = "Forward"
     /\ last.back0 # -2
     /\ (last.back0 > 0 \/ last.back0 = Len(views.elements) - 1))
    => views.pos = last.back0

\* A Forward that followed a Back from cursor 2 of a three-entry stack.
C1_Witness ==
    /\ last.op = "Forward"
    /\ last.back0 = 2
    /\ Len(views.elements) = 3

\* C2: the stack is empty or the cursor is a valid index; Back at cursor 0,
\* Forward at the last entry and Home/Back/Forward on an empty stack change
\* neither cursor nor snapshots; Home on a non-empty stack sets the cursor to
\* 0 and keeps the snapshots.
C2_CursorValid ==
    IF StackEmpty(views) THEN views.pos = -1
    ELSE 0 <= views.pos /\ views.pos <= Len(views.elements) - 1

C2_Clamped ==
    /\ (ToolBack /\ views.pos = 0) => views' = views
    /\ (ToolForward /\ views.pos = Len(views.elements) - 1) => views' = views
    /\ ((ToolHome \/ ToolBack \/ ToolForward) /\ StackEmpty(views))
           => views' = views
    /\ (ToolHome /\ ~StackEmpty(views))
           => (views'.pos = 0 /\ views'.elements = views.elements)

C2_CursorInvariant == [](C2_CursorValid) /\ [][C2_Clamped]_vars

\* A Back has just been clamped at cursor 0 with a redo entry present.
C2_Witness ==
    /\ last.op = "Back"
    /\ last.pos0 = 0
    /\ views.pos = 0
    /\ Len(views.elements) >= 2

\* C3: a handler that pushes with the cursor at c keeps the entries 0..c,
\* discards the entries after c, stores the pushed view at c + 1 and moves
\* the cursor there; the pushed view is then current and a Forward that
\* directly follows is a no-op.
C3_PushStep ==
    /\ last'.pushed # -1 =>
           /\ views'.elements =
                  Append(SubSeq(views.elements, 1, views.pos + 1),
                         CurrentView(xlim', ylim'))
           /\ views'.pos = views.pos + 1
           /\ Len(views'.elements) = views.pos + 2
           /\ StackCurrent(views') = CurrentView(xlim', ylim')
    /\ (last.pushed # -1 /\ ToolForward) => views' = views

C3_PushLinearHistory == [][C3_PushStep]_vars

\* push A, push B, back, push C: the push of C discarded B and left [A, C].
C3_Witness ==
    /\ last.pushed = 1
    /\ Len(views.elements) = 2
    /\ views.pos = 1

\* The tools owning one of the locks acquired on activation.
ActivationOwners == {locks[n] : n \in Range(ActivationLocks)} \ {None}

\* C4: at most one toggle tool is active, and it alone owns the canvas, press
\* and release locks; when tool t is triggered while another tool is active,
\* that tool is deactivated exactly once before t is activated, t's
\* activation meets no contended lock, and t then owns the three locks.
C4_OneActive ==
    /\ ActivationOwners = {toggled} \ {None}
    /\ toggled # None => \A n \in Range(ActivationLocks) : locks[n] = toggled
    /\ last.op = "Trigger" => last.err = None

C4_SwitchStep ==
    \A t \in Tools :
        (Trigger(t) /\ toggled \notin {None, t}) =>
            /\ last'.path = <<<<toggled, "deactivate">>, <<t, "activate">>>>
            /\ last'.err = None
            /\ toggled' = t
            /\ \A n \in Range(ActivationLocks) : locks'[n] = t

C4_ToggleExclusive == [](C4_OneActive) /\ [][C4_SwitchStep]_vars

\* Pan has just been activated in place of a Zoom that was armed for a drag.
C4_Witness ==
    /\ last.op = "Trigger"
    /\ last.path = <<<<"Zoom", "deactivate">>, <<"Pan", "activate">>>>
    /\ toggled = "Pan"
    /\ zoom.ids_zoom # <<>>

\* C5 (as stated): right after deactivate() of a tool, in whatever gesture
\* state, that tool owns none of the locks, the move lock included.
C5_DeactivateReleasesAll ==
    \A t \in Tools :
        (last.op = "Trigger" /\ <<t, "deactivate">> \in Range(last.path))
            => \A n \in LockNames : locks[n] # t


\* The data coordinates of pixel px (py) on axes a under the current ranges.
DataX(a, px) == PixToData(px, Bbox(a).x1, Bbox(a).x2, xlim[a])
DataY(a, py) == PixToData(py, Bbox(a).y1, Bbox(a).y2, ylim[a])

\* C6: a release of an armed zoom gesture (button 1 or 3, any mode, any number
\* of recorded axes) less than 5 pixels from the press point in x and in y
\* changes no x or y range, pushes no snapshot, releases the move lock, removes
\* the key listeners and leaves the tool idle (no listener ids, no press
\* record); the next button-1 or button-3 press then arms a new gesture.
C6_ReleaseStep ==
    \A ev \in Pixels :
        (/\ zoom.ids_zoom # <<>>
         /\ zoom.button_pressed \in {1, 3}
         /\ \A i \in DOMAIN zoom.xypress.items :
                /\ Abs(ev.x - zoom.xypress.items[i].x) < 5
                /\ Abs(ev.y - zoom.xypress.items[i].y) < 5
         /\ ZoomRelease(ev))
        => /\ xlim' = xlim
           /\ ylim' = ylim
           /\ views' = views
           /\ positions' = positions
           /\ locks'["movelock"] = None
           /\ callbacks' \cap Range(ZoomIds) = {}
           /\ zoom'.ids_zoom = <<>>
           /\ zoom'.xypress.items = <<>>

C6_NextPressArms ==
    \A ev \in PressEvents(Pixels, PressKeys) :
        (/\ last.op = "release"
         /\ last.path = "singular"
         /\ ev.button \in {1, 3}
         /\ ZoomPress(ev))
        => /\ last'.path = "armed"
           /\ zoom'.ids_zoom = ZoomIds
           /\ zoom'.button_pressed = ev.button

C6_DegenerateDragHarmless == [][C6_ReleaseStep /\ C6_NextPressArms]_vars

\* A degenerate drag has just been released: nothing was pushed after the
\* press, the move lock is free and no listener is left.
C6_Witness ==
    /\ last.op = "release"
    /\ last.path = "singular"
    /\ views.pos = 0
    /\ locks["movelock"] = None
    /\ callbacks = {}

\* v lies in the closed interval spanned by lim.
Within(lim, v) ==
    \/ RLe(lim[1], v) /\ RLe(v, lim[2])
    \/ RLe(lim[2], v) /\ RLe(v, lim[1])

\* v lies strictly inside the interval spanned by lim.
StrictlyWithin(lim, v) ==
    \/ RLt(lim[1], v) /\ RLt(v, lim[2])
    \/ RLt(lim[2], v) /\ RLt(v, lim[1])

\* The pair p, q ordered like lim.
OrderedLike(lim, p, q) ==
    IF RLt(lim[1], lim[2])
    THEN IF RLt(p, q) THEN <<p, q>> ELSE <<q, p>>
    ELSE IF RGt(p, q) THEN <<p, q>> ELSE <<q, p>>

\* What C7 says of one axis: old is the range before the release, new the
\* range after it, p and q the data coordinates of the press and release points.
ZoomInOK(old, new, p, q) ==
    /\ Within(old, new[1])
    /\ Within(old, new[2])
    /\ RLt(old[1], old[2]) => RLt(new[1], new[2])
    /\ RGt(old[1], old[2]) => RGt(new[1], new[2])
    /\ (StrictlyWithin(old, p) /\ StrictlyWithin(old, q))
           => new = OrderedLike(old, p, q)

ProperRange(lim) == IsFinite(lim[1]) /\ IsFinite(lim[2]) /\ lim[1] # lim[2]

\* C7 (as stated): a completed button-1 zoom with no axis constraint sets each
\* axis of every recorded axes to a range within the closed interval of the
\* range it had before the release, strictly ordered like that range, and equal
\* to the data coordinates of the press and release points when both lie
\* strictly inside it.
C7_ZoomInStep ==
    \A ev \in Pixels :
        (/\ zoom.ids_zoom # <<>>
         /\ zoom.button_pressed = 1
         /\ zoom.zoom_mode \notin {"x", "y"}
         /\ last'.op = "release"
         /\ last'.path = "done"
         /\ ZoomRelease(ev))
        => \A i \in DOMAIN zoom.xypress.items :
               LET rec == zoom.xypress.items[i]
                   a == rec.a
               IN  /\ ProperRange(xlim[a])
                          => ZoomInOK(xlim[a], xlim'[a], DataX(a, rec.x),
                                      DataX(a, ev.x))
                   /\ ProperRange(ylim[a])
                          => ZoomInOK(ylim[a], ylim'[a], DataY(a, rec.y),
                                      DataY(a, ev.y))

C7_ZoomInWithinRange == [][C7_ZoomInStep]_vars

\* C8: a completed button-3 zoom whose two pixel points lie inside the axes,
\* made when the current view is the result of a completed button-1 zoom over
\* the same two points from the previous view, returns every linear,
\* non-inverted axis of the recorded axes to exactly its range in that
\* previous view.
C8_ZoomOutStep ==
    \A ev \in Pixels :
        (/\ zoom.ids_zoom # <<>>
         /\ zoom.button_pressed = 3
         /\ views.pos >= 1
         /\ last'.op = "release"
         /\ last'.path = "done"
         /\ StackCurrent(views) = CurrentView(xlim, ylim)
         /\ ZoomRelease(ev)
         /\ LET V0 == views.elements[views.pos]
                zin == ZoomReleaseLoop(zoom.xypress.items, 1, ev, 1,
                                       zoom.zoom_mode, V0.xlim, V0.ylim, {})
            IN  zin.exit = "done" /\ zin.xlim = xlim /\ zin.ylim = ylim)
        => \A i \in DOMAIN zoom.xypress.items :
               LET rec == zoom.xypress.items[i]
                   a == rec.a
                   V0 == views.elements[views.pos]
               IN  (InAxes(a, rec.x, rec.y) /\ InAxes(a, ev.x, ev.y))
                   => /\ (XScale(a) = "linear"
                            /\ RLt(V0.xlim[a][1], V0.xlim[a][2]))
                          => xlim'[a] = V0.xlim[a]
                      /\ (YScale(a) = "linear"
                            /\ RLt(V0.ylim[a][1], V0.ylim[a][2]))
                          => ylim'[a] = V0.ylim[a]

C9_ReleaseStep ==
    \A ev \in Pixels :
        (/\ zoom.ids_zoom # <<>>
         /\ zoom.button_pressed \in {1, 3}
         /\ last'.op = "release"
         /\ last'.path = "done"
         /\ ZoomRelease(ev))
        => /\ zoom.zoom_mode = "x" => ylim' = ylim
           /\ zoom.zoom_mode = "y" => xlim' = xlim

C9_ModeStep ==
    /\ (last'.op = "press" /\ last'.path = "armed")
           => \A ev \in PressEvents(Pixels, PressKeys) :
                  ZoomPress(ev) => zoom'.zoom_mode = ev.key
    /\ zoom.ids_zoom # <<>>
           => \A k \in Keys :
                  /\ ZoomSwitchOn(k) => zoom'.zoom_mode = k
                  /\ ZoomSwitchOff(k) => zoom'.zoom_mode = None
    /\ last'.op = "move"
           => \A ev \in Pixels :
                  ZoomMouseMove(ev) => zoom'.zoom_mode = zoom.zoom_mode

C9_ConstrainedZoomFrame == [][C9_ReleaseStep /\ C9_ModeStep]_vars

\* A first gesture has completed that changed the x range of axes 1 and left
\* its y range alone.
C9_Witness ==
    /\ last.op = "release"
    /\ last.path = "done"
    /\ views.pos = 1
    /\ views.elements[2].xlim[1] # views.elements[1].xlim[1]
    /\ views.elements[2].ylim = views.elements[1].ylim

\* C10: a press of any button delivered to the armed zoom tool cancels the
\* gesture: the key listeners are disconnected, the move lock is released, no
\* range changes, nothing is pushed, the press record is discarded and the tool
\* is idle without a new gesture armed; a release delivered while there is no
\* press record changes no range, pushes nothing and leaves the tool idle.
C10_CancelStep ==
    \A ev \in PressEvents(CoarsePixels, {None}) :
        (zoom.ids_zoom # <<>> /\ ZoomPress(ev))
        => /\ callbacks' \cap Range(ZoomIds) = {}
           /\ locks'["movelock"] # "Zoom"
           /\ xlim' = xlim
           /\ ylim' = ylim
           /\ views' = views
           /\ positions' = positions
           /\ zoom'.xypress = NoList
           /\ zoom'.ids_zoom = <<>>
           /\ zoom'.button_pressed = NoButton

C10_ReleaseAfterCancel ==
    \A ev \in CoarsePixels :
        (zoom.xypress.isNone /\ ZoomRelease(ev))
        => /\ xlim' = xlim
           /\ ylim' = ylim
           /\ views' = views
           /\ positions' = positions
           /\ zoom'.xypress = NoList
           /\ zoom'.ids_zoom = <<>>

C10_SecondPressCancels == [][C10_CancelStep /\ C10_ReleaseAfterCancel]_vars

\* A press has just cancelled the armed gesture.
C10_Witness ==
    /\ last.op = "press"
    /\ last.path = "cancel"
    /\ zoom.xypress = NoList
    /\ zoom.button_pressed = NoButton
    /\ locks["movelock"] = None
    /\ views.pos = 0


\* Some axes has a pan session (start_pan without end_pan).
PanSessionActive == \E a \in Axes : pan_start[a].active

\* C11: a release delivered to the Pan tool while some axes has a pan session
\* ends every session, leaves the move lock not owned by Pan, leaves the tool
\* idle (no button recorded) and pushes exactly one snapshot of the current
\* ranges, whatever presses came in between.
C11_ReleaseStep ==
    (last'.op = "release" /\ last'.tool = "Pan" /\ PanSessionActive)
    => \A ev \in CoarsePixels :
           PanRelease(ev)
           => /\ \A a \in Axes : ~pan_start'[a].active
              /\ locks'["movelock"] # "Pan"
              /\ pan'.button_pressed = NoButton
              /\ views' = PushCurrent(views, xlim, ylim)

C11_PanReleaseEndsDrag == [][C11_ReleaseStep]_vars

\* A pan drag is in progress: a press recorded a button and at least one axes
\* and the release has not come yet.
PanDragging ==
    /\ pan.button_pressed # NoButton
    /\ pan.xypress.items # <<>>
    /\ locks["movelock"] = "Pan"

\* C12: a press of any button delivered to the Pan tool while a drag is in
\* progress changes neither the recorded button nor the recorded axes, so the
\* moves that follow are forwarded to the same axes with the same button.
C12_PressStep ==
    (last'.op = "press" /\ last'.tool = "Pan" /\ PanDragging)
    => \A ev \in PressEvents(CoarsePixels, {None}) :
           PanPress(ev)
           => /\ pan'.button_pressed = pan.button_pressed
              /\ pan'.xypress = pan.xypress

C12_PanKeepsButton == [][C12_PressStep]_vars

\* C13: a release delivered to the Pan tool with no button recorded, or to the
\* Zoom tool with no press record, changes no range, pushes nothing, changes
\* no lock owner except for releasing the tool's own move lock, and raises
\* nothing.
C13_ReleaseStep ==
    \A ev \in CoarsePixels :
        /\ (pan.button_pressed = NoButton /\ PanRelease(ev))
           => /\ xlim' = xlim /\ ylim' = ylim
              /\ views' = views /\ positions' = positions
              /\ \A n \in LockNames :
                     locks'[n] # locks[n]
                     => n = "movelock" /\ locks[n] = "Pan" /\ locks'[n] = None
              /\ last'.err = None
        /\ (zoom.xypress.items = <<>> /\ ZoomRelease(ev))
           => /\ xlim' = xlim /\ ylim' = ylim
              /\ views' = views /\ positions' = positions
              /\ \A n \in LockNames :
                     locks'[n] # locks[n]
                     => n = "movelock" /\ locks[n] = "Zoom" /\ locks'[n] = None
              /\ last'.err = None

C13_UnmatchedReleaseNoOp == [][C13_ReleaseStep]_vars

\* A release reached the Pan tool after a press of button 2 in the middle of a
\* drag: no button is recorded, the axes of the drag still are.
C13_Witness ==
    /\ last.op = "release"
    /\ last.tool = "Pan"
    /\ last.path = "ignored"
    /\ pan.xypress.items # <<>>
    /\ views.pos = 0


\* C14: a release of an armed zoom gesture (button 1 or 3, any mode) with at
\* least one recorded axes whose press and release points are 5 pixels or more
\* apart in x or in y is not aborted: it completes and pushes a snapshot of
\* the new ranges.
C14_ReleaseStep ==
    (last'.op = "release" /\ last'.tool = "Zoom")
    => \A ev \in Pixels :
           (/\ zoom.ids_zoom # <<>>
            /\ zoom.button_pressed \in {1, 3}
            /\ zoom.xypress.items # <<>>
            /\ \A i \in DOMAIN zoom.xypress.items :
                   \/ Abs(ev.x - zoom.xypress.items[i].x) >= 5
                   \/ Abs(ev.y - zoom.xypress.items[i].y) >= 5
            /\ ZoomRelease(ev))
           => /\ last'.path = "done"
              /\ views' = PushCurrent(views, xlim', ylim')

C14_AbortOnlyWhenBothSmall == [][C14_ReleaseStep]_vars

\* C15: the key listeners of the Zoom tool are registered exactly while the
\* tool is the active toggle tool and armed (both of them then, none
\* otherwise), and a Zoom tool that has just been activated is idle.
C15_ListenersNeverDangle ==
    /\ callbacks = IF toggled = "Zoom" /\ zoom.ids_zoom # <<>>
                   THEN Range(ZoomIds) ELSE {}
    /\ (last.op = "Trigger" /\ last.tool = "Zoom" /\ toggled = "Zoom")
           => zoom.ids_zoom = <<>>

\* C16: a move event is handled only by the active toggle tool, which then
\* owns the move lock, and a release event only by the active toggle tool,
\* which then owns the release lock.
C16_EventsReachActiveTool ==
    /\ last.op = "move"
           => toggled = last.tool /\ locks["movelock"] = last.tool
    /\ last.op = "release"
           => toggled = last.tool /\ locks["releaselock"] = last.tool


\* C17: a button-1 or button-3 press delivered to the Zoom or Pan tool while
\* the view stack is empty pushes the current ranges of all axes and changes
\* no range (also with no axes under the cursor); a press of another button
\* pushes nothing; and no step of any tool empties a non-empty stack or
\* changes its entry at index 0.
C17_PressStep ==
    last'.op = "press"
    => \A ev \in PressEvents(CoarsePixels, {None}) :
           (ZoomPress(ev) \/ PanPress(ev))
           => /\ (ev.button \in {1, 3} /\ StackEmpty(views))
                     => /\ views'.elements = <<CurrentView(xlim, ylim)>>
                        /\ xlim' = xlim
                        /\ ylim' = ylim
              /\ ev.button \notin {1, 3} => views' = views

C17_HomeKept ==
    ~StackEmpty(views)
    => /\ ~StackEmpty(views')
       /\ views'.elements[1] = views.elements[1]

C17_HomeEstablishedOnce == [][C17_PressStep /\ C17_HomeKept]_vars

\* A button-1 press of the Pan tool with no axes under the cursor has just
\* pushed the current ranges onto the empty stack.
C17_Witness ==
    /\ last.op = "press"
    /\ last.tool = "Pan"
    /\ last.pushed = 0
    /\ pan.button_pressed = 1
    /\ pan.xypress.items = <<>>
    /\ views.elements = <<CurrentView(xlim, ylim)>>


\* C18: when a completed zoom gesture (button 1 or 3) records two or more
\* axes, every x (y) range shared with the first recorded axes ends as the
\* zoom of that first axes alone would set it: the later axes of the group
\* do not zoom the shared range a second time.
C18_ReleaseStep ==
    (last'.op = "release" /\ last'.path = "done")
    => \A ev \in Pixels :
           (/\ zoom.ids_zoom # <<>>
            /\ zoom.button_pressed \in {1, 3}
            /\ Len(zoom.xypress.items) >= 2
            /\ ZoomRelease(ev))
           => LET recs == zoom.xypress.items
                  a1 == recs[1].a
                  first == ZoomReleaseLoop(<<recs[1]>>, 1, ev,
                                           zoom.button_pressed, zoom.zoom_mode,
                                           xlim, ylim, {})
              IN  \A i \in 2..Len(recs) :
                      /\ SharedX(a1, recs[i].a)
                             => /\ xlim'[a1] = first.xlim[a1]
                                /\ xlim'[recs[i].a] = first.xlim[a1]
                      /\ SharedY(a1, recs[i].a)
                             => /\ ylim'[a1] = first.ylim[a1]
                                /\ ylim'[recs[i].a] = first.ylim[a1]

C18_SharedAxisZoomedOnce == [][C18_ReleaseStep]_vars


\* C20: in every button-3 release of an armed zoom gesture that passes the
\* 5-pixel check, with the press point inside the axes (edges included) and a
\* proper current range, the clamped interval of the first recorded axes has
\* x0 # x1 and y0 # y1, so alpha = (Max - Min) / (x1 - x0) is defined.
C20_ReleaseStep ==
    (last'.op = "release" /\ last'.tool = "Zoom")
    => \A ev \in Pixels :
           (/\ zoom.ids_zoom # <<>>
            /\ zoom.button_pressed = 3
            /\ zoom.xypress.items # <<>>
            /\ ZoomRelease(ev)
            /\ last'.path # "singular")
           => LET rec == zoom.xypress.items[1]
                  a == rec.a
                  xr == ZoomInterval(xlim[a][1], xlim[a][2], DataX(a, ev.x),
                                     DataX(a, rec.x))
                  yr == ZoomInterval(ylim[a][1], ylim[a][2], DataY(a, ev.y),
                                     DataY(a, rec.y))
              IN  (InAxes(a, rec.x, rec.y) /\ ProperRange(xlim[a])
                     /\ ProperRange(ylim[a]))
                  => xr[1] # xr[2] /\ yr[1] # yr[2]

C20_ZoomOutDivisorNonZero == [][C20_ReleaseStep]_vars


\* No gesture is in progress: the Zoom tool is idle and no axes has a pan
\* session.
NoGesture == zoom.ids_zoom = <<>> /\ ~PanSessionActive

\* C19 (first part): whenever no gesture is in progress and the view stack is
\* not empty, the ranges of all axes are those of the stack's current
\* snapshot group.
C19_RangesAreCurrentView ==
    (NoGesture /\ ~StackEmpty(views))
    => CurrentView(xlim, ylim) = StackCurrent(views)


\* The snapshot group a Back would make current in stack v.
BackView(v) == StackCurrent(StackBack(v))

\* C19 (second part, as stated, for the Zoom tool): after a release that
\* completes a zoom, Back would restore, for every axes of the gesture, the
\* ranges that were visible before the gesture's press (recorded by the press
\* as a.viewLim.frozen()).
C19_BackRestoresPressStep ==
    (last'.op = "release" /\ last'.tool = "Zoom" /\ last'.path = "done")
    => \A ev \in CoarsePixels :
           ZoomRelease(ev)
           => \A i \in DOMAIN zoom.xypress.items :
                  LET rec == zoom.xypress.items[i]
                  IN  /\ BackView(views').xlim[rec.a] = rec.lim[1]
                      /\ BackView(views').ylim[rec.a] = rec.lim[2]

C19_BackRestoresCurrentStep ==
    (last'.op = "release" /\ last'.path = "done")
    => /\ ~StackEmpty(views)
       /\ BackView(views') = StackCurrent(views)
       /\ StackCurrent(views') = CurrentView(xlim', ylim')

C21_TriggerStep ==
    (last'.op = "Trigger" /\ last'.err = "LockContention")
    => \A t \in Tools :
           Trigger(t)
           => /\ \A n \in Range(ActivationLocks) : locks'[n] # t
              /\ toggled' # t
              /\ toggled = None => locks' = locks

\* C21: every skipped activation leaves the locks and the active tool as
\* they were (activation is all-or-nothing under contention).
C21_ActivationAllOrNothing == [][C21_TriggerStep]_vars

====
